---- MODULE Spec2Model ----
(***************************************************************************)
(* Model of src/headers.rs: an incremental parser for an HTTP-like header  *)
(* block, written with nom parser combinators.  Every recognizer is a pure *)
(* function from a byte slice to an IResult, modelled here as an operator  *)
(* from a sequence of bytes to a record                                    *)
(*     [kind |-> "Ok" | "Incomplete" | "Error", rest |-> bytes, out |-> v] *)
(* where "Incomplete" is nom::Err::Incomplete and "Error" nom::Err::Error. *)
(*                                                                         *)
(* Four specifications apply the recognizers to inputs:                    *)
(*   Spec         headers on every buffer of up to MaxLen bytes            *)
(*   SpecSection  headers on a well-formed section and trailing bytes      *)
(*   SpecSplit    headers on a well-formed section delivered in two feeds  *)
(*   SpecValue    value on a first line and its continuation lines         *)
(***************************************************************************)
EXTENDS Integers, Sequences, FiniteSets, TLC

\* ------------------------------------------------------------------ bytes
CR == 13
LF == 10
SP == 32
HT == 9
COLON == 58
\* two bytes that no recognizer treats specially ('k' and 'v')
KK == 107
VV == 118

Byte == {CR, LF, SP, HT, COLON, KK}

\* ----------------------------------------------------------------- bounds
\* longest buffer handed to headers by the byte-level specification
MaxLen == 7
\* most physical lines (header lines and continuation lines) of a
\* generated section
MaxLines == 3
\* most continuation lines of a generated value
MaxFolds == 2

\* ------------------------------------------------------- slices & results
Take(s, n) == SubSeq(s, 1, n)
Drop(s, n) == SubSeq(s, n + 1, Len(s))

IsPrefix(s, t) == Len(s) <= Len(t) /\ Take(t, Len(s)) = s

Ok(rest, out) == [kind |-> "Ok", rest |-> rest, out |-> out]
Incomplete == [kind |-> "Incomplete", rest |-> <<>>, out |-> <<>>]
Error == [kind |-> "Error", rest |-> <<>>, out |-> <<>>]

\* a predicate on u8 is the set of the bytes it holds of
U8 == 0..255

\* <[u8]>::iter().position(pred): index (from 1) of the first byte
\* satisfying pred, 0 for None
Position(pred, s) ==
  LET I == {j \in 1..Len(s) : s[j] \in pred}
  IN IF I = {} THEN 0 ELSE CHOOSE j \in I : \A m \in I : j <= m

\* ------------------------------------------------------ nom combinators
\* nom::character::is_space: space or horizontal tab
is_space(c) == c = SP \/ c = HT

\* the predicate of space0 and space1: the first byte that is no space
not_space == {c \in U8 : ~is_space(c)}

\* nom::bytes::complete::tag: a match, or Error (also on a short input)
complete_tag(t, input) ==
  IF IsPrefix(t, input) THEN Ok(Drop(input, Len(t)), t) ELSE Error

\* nom::bytes::streaming::tag: Incomplete when the input is a proper prefix
\* of the tag
tag(t, input) ==
  IF IsPrefix(t, input) THEN Ok(Drop(input, Len(t)), t)
  ELSE IF Len(input) < Len(t) /\ IsPrefix(input, t) THEN Incomplete
  ELSE Error

\* nom::bytes::streaming::take_till: Incomplete when no byte satisfies P
take_till(pred, input) ==
  LET p == Position(pred, input)
  IN IF p = 0 THEN Incomplete ELSE Ok(Drop(input, p - 1), Take(input, p - 1))

\* nom::character::streaming::space0
space0(input) ==
  LET p == Position(not_space, input)
  IN IF p = 0 THEN Incomplete ELSE Ok(Drop(input, p - 1), Take(input, p - 1))

\* nom::character::streaming::space1
space1(input) ==
  LET p == Position(not_space, input)
  IN IF p = 0 THEN Incomplete
     ELSE IF p = 1 THEN Error
     ELSE Ok(Drop(input, p - 1), Take(input, p - 1))

\* nom::combinator::not applied to the result r of the inner parser
not(r, input) ==
  IF r.kind = "Ok" THEN Error
  ELSE IF r.kind = "Error" THEN Ok(input, <<>>)
  ELSE r

\* nom::combinator::peek applied to the result r of the inner parser
peek(r, input) == IF r.kind = "Ok" THEN Ok(input, r.out) ELSE r

\* nom::branch::alt over two results: the second only after an Error
alt(r1, r2) == IF r1.kind = "Error" THEN r2 ELSE r1

\* nom::sequence::tuple of two parsers: r1 is the result of the first, r2
\* the result of the second on r1.rest, used only when r1 is Ok
tuple(r1, r2) ==
  IF r1.kind # "Ok" THEN r1
  ELSE IF r2.kind # "Ok" THEN r2
  ELSE Ok(r2.rest, <<r1.out, r2.out>>)

\* ---------------------------------------------------------- recognizers
\* A recognizer p(input) that runs one parser and then works on its result
\* is written p(input) == p_on(result of the first parser).

\* the closure of name's map: (_, n) to Name
name_map(r) ==
  IF r.kind # "Ok" THEN r
  ELSE Ok(r.rest, [name |-> r.out[2], flags |-> 0])

\* name after not(space1): take_till(|c| c == b':')
name_on(g) == name_map(tuple(g, take_till({c \in U8 : c = COLON}, g.rest)))

\* name without its not(space1) guard
name_unguarded(input) ==
  name_on(Ok(input, <<>>))

\* Parse one header name up to the :
name(input) == name_on(not(space1(input), input))

\* complete_eol trying the one-byte LF before the four-byte form
complete_eol_short_first(input) ==
  alt(complete_tag(<<LF>>, input),
      alt(complete_tag(<<CR, LF>>, input),
          alt(complete_tag(<<CR>>, input),
              complete_tag(<<LF, CR, CR, LF>>, input))))

\* complete_eol without its last alternative, the bare CR
complete_eol_no_cr(input) ==
  alt(complete_tag(<<LF, CR, CR, LF>>, input),
      alt(complete_tag(<<CR, LF>>, input),
          complete_tag(<<LF>>, input)))

\* Parse one complete end of line character or character set
complete_eol(input) ==
  alt(complete_tag(<<LF, CR, CR, LF>>, input),
      alt(complete_tag(<<CR, LF>>, input),
          alt(complete_tag(<<LF>>, input),
              complete_tag(<<CR>>, input))))

\* the closure of eol's map: (end, _) to end
eol_map(r) == IF r.kind # "Ok" THEN r ELSE Ok(r.rest, r.out[1])

\* eol after complete_eol: peek(not(space1))
eol_on(e) == eol_map(tuple(e, peek(not(space1(e.rest), e.rest), e.rest)))

\* Parse one header end of line, and guarantee that it is not folding
eol(input) == eol_on(complete_eol(input))

\* Test if the byte is CR or LF
is_eol(c) == c = CR \/ c = LF

\* folding after complete_eol: space1
folding_on(e) == tuple(e, space1(e.rest))

\* Parse header folding bytes (eol + whitespace)
folding(input) == folding_on(complete_eol(input))

\* the closure of folding_or_eol's map: end to (end, None)
folding_or_eol_map(e) ==
  IF e.kind # "Ok" THEN e
  ELSE Ok(e.rest, [end |-> e.out, fold |-> <<>>, folded |-> FALSE])

\* folding_or_eol on the result f of folding; folded is Option::is_some
folding_or_eol_on(f, input) ==
  IF f.kind = "Ok"
  THEN Ok(f.rest, [end |-> f.out[1], fold |-> f.out[2], folded |-> TRUE])
  ELSE folding_or_eol_map(eol(input))

\* Parse folding bytes or an eol
folding_or_eol(input) == folding_or_eol_on(folding(input), input)

\* value_bytes after take_till(is_eol): folding_or_eol
value_bytes_on(v) == tuple(v, folding_or_eol(v.rest))

\* Parse a header value: out is <<bytes, [end, fold, folded]>>
value_bytes(input) ==
  value_bytes_on(take_till({c \in U8 : is_eol(c)}, input))

RECURSIVE value_loop(_, _)
\* one turn of the loop of value without value.push(b' ')
value_arm_no_space(r, val) ==
  IF r.kind # "Ok" THEN r
  ELSE IF ~r.out[2].folded
       THEN Ok(r.rest, [value |-> val \o r.out[1], flags |-> 0])
       ELSE value_loop(r.rest, val \o r.out[1])

\* the loop of value without value.push(b' ')
value_loop_no_space(i, val) == value_arm_no_space(value_bytes(i), val)

\* one turn of the loop of value, on the result r of value_bytes(i)
value_arm(r, val) ==
  IF r.kind # "Ok" THEN r
  ELSE IF ~r.out[2].folded
       THEN Ok(r.rest, [value |-> (val \o <<SP>>) \o r.out[1], flags |-> 0])
       ELSE value_loop(r.rest, (val \o <<SP>>) \o r.out[1])

\* the loop of value: i is the unparsed input, val the bytes merged so far
value_loop(i, val) == value_arm(value_bytes(i), val)

\* value after its first value_bytes
value_on(r) ==
  IF r.kind # "Ok" THEN r
  ELSE IF ~r.out[2].folded
       THEN Ok(r.rest, [value |-> r.out[1], flags |-> 0])
       ELSE value_loop(r.rest, r.out[1])

\* Parse a complete header value, including any folded headers
value(input) == value_on(value_bytes(input))

\* separator after tag(b":"): space0
separator_on(c) == tuple(c, space0(c.rest))

\* Parse a separator (colon + space) between header name and value
separator(input) == separator_on(tag(<<COLON>>, input))

\* the closure of header's map: (name, _, value) to Header
header_map(n, v) ==
  IF v.kind # "Ok" THEN v
  ELSE Ok(v.rest, [name |-> n.out, value |-> v.out])

\* header after name and separator: value
header_value(n, s) ==
  IF s.kind # "Ok" THEN s ELSE header_map(n, value(s.rest))

\* header after name: separator
header_on(n) ==
  IF n.kind # "Ok" THEN n ELSE header_value(n, separator(n.rest))

\* Parse a header name: value
header(input) == header_on(name(input))

\* --------------------------------------------------------- block driver
\* The outcome of headers: kind and rest as above, out the Vec<Header>,
\* seen the bool of the Ok tuple.  Two fields record the path taken and are
\* not part of the Rust value: exit is the source line of the return
\* statement taken, tries the slices on which the loop called header.
Outcome(kind, rest, out, seen, exit, tries) ==
  [kind |-> kind, rest |-> rest, out |-> out, seen |-> seen,
   exit |-> exit, tries |-> tries]

RECURSIVE headers_loop(_, _, _, _)
\* the Ok arm of the loop: h is the header parsed, out already holds it,
\* e is complete_eol(h.rest)
headers_loop_ok(rest, h, out, e, tries) ==
  IF e.kind = "Ok"
  THEN Outcome("Ok", e.rest, out, TRUE, 134, tries)
  ELSE headers_loop(rest, h.rest, out, tries)

\* the match of the loop, on the result h of header(i)
headers_match(rest, h, out, tries) ==
  IF h.kind = "Ok"
  THEN headers_loop_ok(rest, h, Append(out, h.out), complete_eol(h.rest),
                       tries)
  ELSE IF h.kind = "Incomplete"
       THEN Outcome("Ok", rest, out, FALSE, 137, tries)
       ELSE Outcome(h.kind, <<>>, <<>>, FALSE, 138, tries)

\* the loop of headers: rest is the binding of line 121, which the loop
\* never rebinds (the Ok arm's own rest shadows it inside that arm only)
headers_loop(rest, i, out, tries) ==
  headers_match(rest, header(i), out, Append(tries, i))

\* headers_first returning, at the section end, the input before the blank
\* line instead of after it
headers_first_keeps_blank(h, e) ==
  IF e.kind = "Ok"
  THEN Outcome("Ok", h.rest, <<h.out>>, TRUE, 125, <<>>)
  ELSE headers_loop(h.rest, h.rest, <<h.out>>, <<>>)

\* headers after its first header h: e is complete_eol(h.rest)
headers_first(h, e) ==
  IF e.kind = "Ok"
  THEN Outcome("Ok", e.rest, <<h.out>>, TRUE, 125, <<>>)
  ELSE headers_loop(h.rest, h.rest, <<h.out>>, <<>>)

\* headers on the result h of header(input): the ? of line 121
headers_on(h) ==
  IF h.kind # "Ok" THEN Outcome(h.kind, <<>>, <<>>, FALSE, 121, <<>>)
  ELSE headers_first(h, complete_eol(h.rest))

\* Parse multiple headers and indicate if end of headers was found
headers(input) == headers_on(header(input))

\* ------------------------------------------------------------ the state
VARIABLES
  input,   \* the byte buffer the caller hands to the parser
  stage,   \* where the caller is: filling the buffer, ..., "done"
  result,  \* the outcome of the last call on input
  wire,    \* the bytes of a generated header section, as on the wire
  twin,    \* the same section with every line ended by CR LF
  expect,  \* the headers (or the value) the generated bytes spell
  terms,   \* the terminators written to wire: [at |-> offset, form |-> t]
  trail,   \* the bytes written to wire after the blank line
  pending, \* the second feed, not yet delivered
  first    \* the outcome of the call on the first feed

vars == <<input, stage, result, wire, twin, expect, terms, trail, pending, first>>

gen == <<wire, twin, expect, terms, trail>>

NoResult == Outcome("None", <<>>, <<>>, FALSE, 0, <<>>)

\* ------------------------------------- byte-level specification (Spec)
Init ==
  /\ input = <<>>
  /\ stage = "recv"
  /\ result = NoResult
  /\ wire = <<>>
  /\ twin = <<>>
  /\ expect = <<>>
  /\ terms = <<>>
  /\ trail = <<>>
  /\ pending = <<>>
  /\ first = NoResult

\* the transport delivers one more byte of the header section
Recv(b) ==
  /\ stage = "recv"
  /\ Len(input) < MaxLen
  /\ input' = Append(input, b)
  /\ UNCHANGED <<stage, result, gen, pending, first>>

\* the caller hands the buffer to headers
Call ==
  /\ stage = "recv"
  /\ result' = headers(input)
  /\ stage' = "done"
  /\ UNCHANGED <<input, gen, pending, first>>

Next ==
  \/ \E b \in Byte : Recv(b)
  \/ Call

Spec == Init /\ [][Next]_vars

\* ----------------------------- generated header sections (SpecSection)
\* the four line-terminator forms
Terminators == {<<LF, CR, CR, LF>>, <<CR, LF>>, <<LF>>, <<CR>>}

\* a header's first physical line: name, colon, separator whitespace, value
HeaderShapes ==
  { [name |-> <<>>, sep |-> <<>>, line |-> <<>>],
    [name |-> <<KK>>, sep |-> <<SP>>, line |-> <<VV>>] }

\* a continuation line: leading whitespace, then the line's bytes
FoldShapes == { [ws |-> <<HT, SP>>, line |-> <<VV>>] }

\* what may follow the blank line
Trailings == { <<KK>>, <<SP>>, <<LF>>, <<CR, LF, KK>>, <<CR, CR, LF>> }

InitSection ==
  /\ input = <<>>
  /\ stage = "start"
  /\ result = NoResult
  /\ wire = <<>>
  /\ twin = <<>>
  /\ expect = <<>>
  /\ terms = <<>>
  /\ trail = <<>>
  /\ pending = <<>>
  /\ first = NoResult

Term(at, t) == [at |-> at, form |-> t]

\* one more header: its first line and that line's terminator
AddHeader(h, t) ==
  /\ stage \in {"start", "lines"}
  /\ Len(terms) < MaxLines
  /\ LET line == ((h.name \o <<COLON>>) \o h.sep) \o h.line
     IN /\ wire' = (wire \o line) \o t
        /\ twin' = (twin \o line) \o <<CR, LF>>
        /\ terms' = Append(terms, Term(Len(wire) + Len(line), t))
  /\ expect' = Append(expect, [name |-> [name |-> h.name, flags |-> 0],
                               value |-> [value |-> h.line, flags |-> 0]])
  /\ stage' = "lines"
  /\ UNCHANGED <<input, result, trail, pending, first>>

\* one more physical line of the last header's value
AddFold(f, t) ==
  /\ stage = "lines"
  /\ Len(terms) < MaxLines
  /\ LET line == f.ws \o f.line
     IN /\ wire' = (wire \o line) \o t
        /\ twin' = (twin \o line) \o <<CR, LF>>
        /\ terms' = Append(terms, Term(Len(wire) + Len(line), t))
  /\ expect' = [expect EXCEPT ![Len(expect)].value.value =
                                 (@ \o <<SP>>) \o f.line]
  /\ UNCHANGED <<input, stage, result, trail, pending, first>>

\* the blank line that ends the section
AddBlank(t) ==
  /\ stage = "lines"
  /\ wire' = wire \o t
  /\ twin' = twin \o <<CR, LF>>
  /\ terms' = Append(terms, Term(Len(wire), t))
  /\ stage' = "blank"
  /\ UNCHANGED <<input, result, expect, trail, pending, first>>

\* bytes after the section
AddTrail(x) ==
  /\ stage = "blank"
  /\ wire' = wire \o x
  /\ trail' = x
  /\ stage' = "trail"
  /\ UNCHANGED <<input, result, twin, expect, terms, pending, first>>

\* the caller hands the whole of the bytes to headers
CallSection ==
  /\ stage \in {"blank", "trail"}
  /\ input' = wire
  /\ result' = headers(wire)
  /\ stage' = "done"
  /\ UNCHANGED <<gen, pending, first>>

NextSection ==
  \/ \E h \in HeaderShapes, t \in Terminators : AddHeader(h, t)
  \/ \E f \in FoldShapes, t \in Terminators : AddFold(f, t)
  \/ \E t \in Terminators : AddBlank(t)
  \/ \E x \in Trailings : AddTrail(x)
  \/ CallSection

SpecSection == InitSection /\ [][NextSection]_vars

\* every terminator written is the longest of the four forms that matches
\* at its place in the bytes: no CR is directly followed by LF, no LF by
\* CR CR LF
Greedy ==
  \A j \in 1..Len(terms) :
    complete_eol(Drop(wire, terms[j].at)).out = terms[j].form

\* ------------------------------------- a section in two feeds (SpecSplit)
\* the transport delivers the first k bytes of the section and the caller
\* hands them to headers
FirstFeed(k) ==
  /\ stage = "blank"
  /\ input' = Take(wire, k)
  /\ pending' = Drop(wire, k)
  /\ result' = headers(Take(wire, k))
  /\ stage' = "fed"
  /\ UNCHANGED <<gen, first>>

\* what the caller keeps of its buffer after a call: the remainder of an Ok
\* outcome, the whole buffer after an error (nothing was consumed)
Remainder == IF result.kind = "Ok" THEN result.rest ELSE input

\* the rest of the section arrives; the caller appends it to the remainder
\* of the first call and calls headers again
SecondFeed ==
  /\ stage = "fed"
  /\ first' = result
  /\ input' = Remainder \o pending
  /\ result' = headers(Remainder \o pending)
  /\ pending' = <<>>
  /\ stage' = "done"
  /\ UNCHANGED gen

NextSplit ==
  \/ \E h \in HeaderShapes, t \in Terminators : AddHeader(h, t)
  \/ \E f \in FoldShapes, t \in Terminators : AddFold(f, t)
  \/ \E t \in Terminators : AddBlank(t)
  \/ \E k \in 1..(Len(wire) - 1) : FirstFeed(k)
  \/ SecondFeed

SpecSplit == InitSection /\ [][NextSplit]_vars

\* ------------------------------------------ generated values (SpecValue)
\* the first physical line of a value, as value receives it
FirstLines == { <<>>, <<VV>>, <<SP, VV>> }

\* a continuation line: its leading spaces and tabs, then its bytes
ContShapes ==
  { [ws |-> <<SP>>, line |-> <<VV>>],
    [ws |-> <<HT, HT>>, line |-> <<VV, SP, COLON>>],
    [ws |-> <<SP, HT>>, line |-> <<>>] }

\* what may follow the value's last terminator: the first byte is neither
\* a space nor a tab
Followers ==
  { <<KK>>, <<COLON>>, <<CR>>, <<LF>>, <<CR, LF>>, <<CR, CR, LF>> }

\* the line L0 and its terminator
ValueFirstLine(l, t) ==
  /\ stage = "start"
  /\ wire' = l \o t
  /\ twin' = l \o <<CR, LF>>
  /\ terms' = <<Term(Len(l), t)>>
  /\ expect' = l
  /\ stage' = "lines"
  /\ UNCHANGED <<input, result, trail, pending, first>>

\* a continuation line Li and its terminator
ValueFold(f, t) ==
  /\ stage = "lines"
  /\ Len(terms) <= MaxFolds
  /\ LET line == f.ws \o f.line
     IN /\ wire' = (wire \o line) \o t
        /\ twin' = (twin \o line) \o <<CR, LF>>
        /\ terms' = Append(terms, Term(Len(wire) + Len(line), t))
  /\ expect' = (expect \o <<SP>>) \o f.line
  /\ UNCHANGED <<input, stage, result, trail, pending, first>>

\* the bytes after the last terminator
ValueFollow(x) ==
  /\ stage = "lines"
  /\ wire' = wire \o x
  /\ trail' = x
  /\ stage' = "follow"
  /\ UNCHANGED <<input, result, twin, expect, terms, pending, first>>

\* value is applied to the bytes
CallValue ==
  /\ stage = "follow"
  /\ input' = wire
  /\ result' = value(wire)
  /\ stage' = "done"
  /\ UNCHANGED <<gen, pending, first>>

NextValue ==
  \/ \E l \in FirstLines, t \in Terminators : ValueFirstLine(l, t)
  \/ \E f \in ContShapes, t \in Terminators : ValueFold(f, t)
  \/ \E x \in Followers : ValueFollow(x)
  \/ CallValue

SpecValue == InitSection /\ [][NextValue]_vars

\* ------------------------------------------ claims on the byte-level Spec
Returned == stage = "done"

Headers(r) == {r.out[j] : j \in 1..Len(r.out)}

Bytes(s) == {s[j] : j \in 1..Len(s)}

\* C3: an Ok outcome with terminator_seen = false hands back, as remainder,
\* the input from where the incomplete header attempt began, so that no
\* byte of an accepted header is part of it (for any number of accepted
\* headers).
C3_RemainderStartsAtFailedAttempt ==
  (Returned /\ result.kind = "Ok" /\ ~result.seen)
    => result.rest = result.tries[Len(result.tries)]

\* C6: in every Ok outcome no Name holds a colon or begins with a space or
\* tab, and no Value holds a CR or an LF.
C6_OutputInvariant ==
  (Returned /\ result.kind = "Ok") =>
    \A h \in Headers(result) :
      /\ COLON \notin Bytes(h.name.name)
      /\ h.name.name # <<>> => ~is_space(h.name.name[1])
      /\ CR \notin Bytes(h.value.value)
      /\ LF \notin Bytes(h.value.value)

\* C6 witness: an Ok outcome whose header has a name and a value of at
\* least one byte each
C6_Witness ==
  /\ Returned /\ result.kind = "Ok"
  /\ \E h \in Headers(result) : h.name.name # <<>> /\ h.value.value # <<>>

\* C7: on a buffer whose first byte is a space or a tab, name and headers
\* fail hard: never Incomplete, never success.
C7_LeadingSpaceIsHardFailure ==
  (Returned /\ input # <<>> /\ is_space(input[1])) =>
    (name(input).kind = "Error" /\ result.kind = "Error")

\* C8: what headers accepts on a buffer is a prefix of what it accepts on
\* every extension of the buffer (here: by one byte, which gives every
\* extension by induction on the buffers the specification reaches).
C8_AcceptedIsPrefixOfExtension ==
  (Returned /\ Len(input) < MaxLen) =>
    \A b \in Byte : IsPrefix(result.out, headers(Append(input, b)).out)

\* C9: headers never returns Incomplete as an error: an incomplete header
\* attempt, the first one included, gives an Ok outcome.
C9_NeverIncompleteError == Returned => result.kind # "Incomplete"

\* C10: headers fails hard only on its first header attempt and only when
\* the input begins with a space or tab; every later attempt starts at a
\* byte that is not space, tab, CR or LF and succeeds or is incomplete, so
\* the loop's hard-failure arm (line 138) is never taken.
C10_HardFailureOnlyAtFirstAttempt ==
  Returned =>
    /\ result.kind = "Error" =>
         (result.exit = 121 /\ input # <<>> /\ is_space(input[1]))
    /\ result.exit # 138
    /\ \A j \in 1..Len(result.tries) :
         /\ result.tries[j] # <<>>
         /\ ~is_space(result.tries[j][1])
         /\ ~is_eol(result.tries[j][1])
         /\ header(result.tries[j]).kind \in {"Ok", "Incomplete"}

\* C10 witness: the loop made two header attempts, the second incomplete
C10_Witness ==
  Returned /\ Len(result.tries) >= 2 /\ result.exit = 137

\* -------------------------------------------- claims on SpecSection
\* C1 as stated: a valid section followed by any trailing bytes parses to
\* its headers in wire order, terminator_seen = true, and a remainder equal
\* to the trailing bytes, whatever these start with.
C1_SectionThenTrailing ==
  Returned =>
    /\ result.kind = "Ok"
    /\ result.out = expect
    /\ result.seen
    /\ result.rest = trail

\* C1 amended: the same, for the sections in which every terminator is the
\* longest form matching at its place (the trailing bytes do not extend
\* the blank line's terminator, nor the blank line the last line's).
C1_SectionThenTrailingGreedy ==
  (Returned /\ Greedy) =>
    /\ result.kind = "Ok"
    /\ result.out = expect
    /\ result.seen
    /\ result.rest = trail

\* C1 witness: two headers, one folded, a blank line and trailing bytes
\* that begin with CR, parsed with the trailing bytes as remainder
C1_Witness ==
  /\ Returned /\ Greedy
  /\ Len(expect) = 2 /\ Len(terms) = 4
  /\ trail # <<>> /\ trail[1] = CR
  /\ result.rest = trail

\* C5 as stated: with the terminator of every physical line chosen freely
\* among the four forms, headers gives the headers and terminator_seen =
\* true that it gives for the same section with CR LF everywhere.
C5_MixedTerminators ==
  (Returned /\ trail = <<>>) =>
    /\ result.kind = "Ok" /\ result.seen
    /\ headers(twin).kind = "Ok" /\ headers(twin).seen
    /\ result.out = headers(twin).out

\* the section's last line ends with a bare CR and its blank line is a
\* bare LF: on the wire the two are the one terminator CR LF
CrThenLfBlank ==
  /\ Len(terms) >= 2
  /\ terms[Len(terms) - 1].form = <<CR>>
  /\ terms[Len(terms)].form = <<LF>>

\* C5 amended: the same, except when the last line ends with a bare CR and
\* the blank line is a bare LF.
C5_MixedTerminatorsExceptCrLf ==
  (Returned /\ trail = <<>> /\ ~CrThenLfBlank) =>
    /\ result.kind = "Ok" /\ result.seen
    /\ headers(twin).kind = "Ok" /\ headers(twin).seen
    /\ result.out = headers(twin).out

\* C5 witness: a section of three lines and a blank line that uses each of
\* the four forms once, parsed to its end
C5_Witness ==
  /\ Returned /\ trail = <<>> /\ ~CrThenLfBlank
  /\ {terms[j].form : j \in 1..Len(terms)} = Terminators
  /\ result.seen /\ Len(result.out) = 2

\* ----------------------------------------------- claims on SpecSplit
\* C2: a section fed in two parts, the second part appended to the
\* remainder of the first call, gives in total the headers, the
\* terminator_seen = true and the final remainder of one call on the whole
\* section.  (Stated for the sections one call parses to their end, and
\* for the splits whose first call does not report the section's end.)
C2_FeedSplittingInvariance ==
  (Returned /\ Greedy /\ ~first.seen) =>
    /\ result.kind = "Ok"
    /\ first.out \o result.out = headers(wire).out
    /\ result.seen = headers(wire).seen
    /\ result.rest = headers(wire).rest

\* ----------------------------------------------- claims on SpecValue
\* C4 as stated: the value of lines L0 .. Ln is L0 followed, for each
\* continuation line, by one space and the line without its leading spaces
\* and tabs, whatever terminator form ended each line, and the remainder
\* starts right after the last terminator, whenever a byte that is neither
\* space nor tab follows it.
C4_FoldMerging ==
  Returned =>
    /\ result.kind = "Ok"
    /\ result.out.value = expect
    /\ result.rest = trail

\* C4 amended: the same, when the last terminator is the longest form that
\* matches at its place (the bytes after it do not extend it).
C4_FoldMergingGreedy ==
  (Returned /\ Greedy) =>
    /\ result.kind = "Ok"
    /\ result.out.value = expect
    /\ result.rest = trail

\* C4 witness: two continuation lines, three different terminator forms, a
\* continuation with two leading whitespace bytes, and a CR after the last
\* terminator
C4_Witness ==
  /\ Returned /\ Greedy
  /\ Len(terms) = 3
  /\ Cardinality({terms[j].form : j \in 1..Len(terms)}) = 3
  /\ Len(expect) >= 6
  /\ trail = <<CR>>
  /\ result.kind = "Ok"

====
